---- MODULE Spec2Model ----
(***************************************************************************)
(* Model of the k8s_manifest resource of terraform-provider-k8s            *)
(* (src/main.go): the kubeconfig resolver, the kubectl argument builder,   *)
(* the self-link codec and the four lifecycle callbacks Create, Read,      *)
(* Update and Delete.                                                      *)
(*                                                                         *)
(* Go strings are modelled as sequences of one-character strings, so that  *)
(* strings.Split, strings.Join, strings.TrimSpace and url.PathUnescape are *)
(* computed character by character.  The empty string is << >>.            *)
(***************************************************************************)
EXTENDS Integers, Sequences, FiniteSets, TLC

VARIABLES m, id, createdId, createdItems, op, idBefore, ios, resources,
          attempts, locators, calls, errs, resolutions, tmpfiles, cleared

vars == <<m, id, createdId, createdItems, op, idBefore, ios, resources,
          attempts, locators, calls, errs, resolutions, tmpfiles, cleared>>

(***************************************************************************)
(* Bounds and input alphabets                                              *)
(***************************************************************************)
\* largest number of items the "get -o json" output reports in one Create
MaxItems == 2

Empty == << >>

\* string literals of the source
resourceIDSelflinkDelim == " "
Slash == "/"
sNamespaces == <<"n","a","m","e","s","p","a","c","e","s">>
sKubeconfigFlag == <<"-","-","k","u","b","e","c","o","n","f","i","g">>
sContextFlag == <<"-","-","c","o","n","t","e","x","t">>
sApply == <<"a","p","p","l","y">>
sGet == <<"g","e","t">>
sDelete == <<"d","e","l","e","t","e">>
sDashF == <<"-","f">>
sDash == <<"-">>
sDashO == <<"-","o">>
sJson == <<"j","s","o","n">>
sDashN == <<"-","n">>
sIgnoreNotFound == <<"-","-","i","g","n","o","r","e","-","n","o","t","-","f","o","u","n","d">>

\* provider configuration values the host may supply
CfgPath == <<"/","k","c">>
CfgContent == <<"c","f","g">>
CfgContext == <<"c","t","x">>
\* name ioutil.TempFile gives the materialised credentials file
TmpName == <<"/","t","m","p","/","k","_","1">>

\* self-links the cluster may report
LinkDeployment == <<"a","p","p","s","/","v","1","/">> \o sNamespaces
                    \o <<"/","f","o","o","/","d","e","p","l","o","y","m","e","n","t","s","/","b","a","r">>
LinkShort == <<"s","h","o","r","t">>
LinkEscaped == <<"v","1","/","c","m","/","a","%","4","1">>
LinkBadEscape == <<"c","m","/","%","z","z">>
LinkSpace == <<"x"," ","y","/","z">>
LinkNsLast == <<"v","1","/">> \o sNamespaces
LinkNsTwice == sNamespaces \o <<"/">> \o sNamespaces \o <<"/","q">>

SelfLinks == {LinkDeployment, LinkShort, LinkEscaped, LinkBadEscape,
              LinkSpace, LinkNsLast, LinkNsTwice}

\* standard output of "get --ignore-not-found"
OutEmpty == << >>
OutBlank == <<" ","\n">>
OutFound == <<"p","o","d">>
Stdouts == {OutEmpty, OutBlank, OutFound}

(***************************************************************************)
(* Go library functions                                                    *)
(***************************************************************************)
\* strings.Split(s, sep) for a one-character separator: n occurrences of sep
\* cut s into n+1 pieces, the k-th running from just after the (k-1)-th
\* occurrence to just before the k-th
SplitPieces(s, sep) ==
    LET pos == {i \in 1..Len(s) : s[i] = sep}
        n == Cardinality(pos)
        cut(k) == CHOOSE i \in pos : Cardinality({j \in pos : j < i}) = k - 1
        first(k) == IF k = 1 THEN 1 ELSE cut(k - 1) + 1
        last(k) == IF k = n + 1 THEN Len(s) ELSE cut(k) - 1
    IN  << >> \o [k \in 1..(n + 1) |-> SubSeq(s, first(k), last(k))]

\* variant: the empty string splits into no piece at all
Split_emptyOnEmpty(s, sep) ==
    IF s = Empty THEN << >> ELSE SplitPieces(s, sep)

Split(s, sep) == SplitPieces(s, sep)

\* strings.Join(elems, sep) for a one-character separator
RECURSIVE Join(_, _)
\* variant: the elements are concatenated without the separator
Join_noDelim(elems, sep) ==
    IF elems = << >> THEN Empty
    ELSE Head(elems) \o Join(Tail(elems), sep)

Join(elems, sep) ==
    IF elems = << >> THEN Empty
    ELSE IF Len(elems) = 1 THEN elems[1]
    ELSE elems[1] \o <<sep>> \o Join(Tail(elems), sep)

\* unicode.IsSpace on the characters that occur
IsSpace(c) == c \in {" ", "\n", "\t", "\r"}

\* strings.TrimSpace(s) == ""
\* variant: only the empty output counts, whitespace is not trimmed
TrimSpaceIsEmpty_exact(s) == s = Empty

TrimSpaceIsEmpty(s) == \A i \in 1..Len(s) : IsSpace(s[i])

HexDigits == <<"0","1","2","3","4","5","6","7","8","9","a","b","c","d","e","f">>
HexUpper == <<"A","B","C","D","E","F">>

\* net/url ishex
ishex(c) == (\E i \in 1..16 : HexDigits[i] = c) \/ (\E i \in 1..6 : HexUpper[i] = c)

\* net/url unhex
unhex(c) ==
    IF \E i \in 1..16 : HexDigits[i] = c
    THEN (CHOOSE i \in 1..16 : HexDigits[i] = c) - 1
    ELSE (CHOOSE i \in 1..6 : HexUpper[i] = c) + 9

\* the printable ASCII characters, code 32 to 126 (the backquote, which the
\* lexer rejects inside a string, is written \x60)
Printable ==
    <<" ","!","\"","#","$","%","&","'","(",")","*","+",",","-",".","/",
      "0","1","2","3","4","5","6","7","8","9",":",";","<","=",">","?",
      "@","A","B","C","D","E","F","G","H","I","J","K","L","M","N","O",
      "P","Q","R","S","T","U","V","W","X","Y","Z","[","\\","]","^","_",
      "\\x60","a","b","c","d","e","f","g","h","i","j","k","l","m","n","o",
      "p","q","r","s","t","u","v","w","x","y","z","{","|","}","~">>

\* the character of a byte value
Chr(n) == IF n \in 32..126 THEN Printable[n - 31] ELSE "\\x" \o ToString(n)

\* first pass of net/url unescape in path mode: every percent sign is followed by
\* two hex digits
RECURSIVE escapesValid(_, _)
escapesValid(s, i) ==
    IF i > Len(s) THEN TRUE
    ELSE IF s[i] = "%"
         THEN IF i + 2 > Len(s) \/ ~ishex(s[i+1]) \/ ~ishex(s[i+2])
              THEN FALSE
              ELSE escapesValid(s, i + 3)
         ELSE escapesValid(s, i + 1)

\* second pass of net/url unescape in path mode
RECURSIVE unescape(_)
unescape(s) ==
    IF s = Empty THEN Empty
    ELSE IF Head(s) = "%"
         THEN <<Chr(unhex(s[2]) * 16 + unhex(s[3]))>> \o unescape(SubSeq(s, 4, Len(s)))
         ELSE <<Head(s)>> \o unescape(Tail(s))

\* url.PathUnescape: ("", err) on a malformed escape
PathUnescape(s) ==
    IF escapesValid(s, 1) THEN [val |-> unescape(s), ok |-> TRUE]
    ELSE [val |-> Empty, ok |-> FALSE]

RECURSIVE Flatten(_)
\* concatenation of a sequence of sequences (repeated append)
Flatten(ss) == IF ss = << >> THEN << >> ELSE Head(ss) \o Flatten(Tail(ss))

(***************************************************************************)
(* Errors.  An error is a record: its kind and the strings it formats.     *)
(***************************************************************************)
Err(kind, detail) == [kind |-> kind, detail |-> detail]

\* what the environment does to one subprocess or temporary-file call
IO(tmp, runResult, out, getResult, valid, items) ==
    [tmp |-> tmp, run |-> runResult, out |-> out, get |-> getResult,
     valid |-> valid, items |-> items]

(***************************************************************************)
(* Process runner and kubeconfig resolver                                  *)
(***************************************************************************)
\* run(cmd): nil on exit status 0, otherwise an error that names the command
run(cmd, result) == IF result = "fail" THEN <<Err("exec", cmd)>> ELSE << >>

\* kubeconfigPath(m) under the temporary-file outcome tmp:
\*   path     the first result
\*   err      the error result (empty sequence is nil)
\*   created  ioutil.TempFile made a file
\*   remover  the returned cleanupFunc is the os.Remove closure
\*   deferred how often kubeconfigPath itself ran cleanupFunc (defer)
\* variant: the write-failure path returns without its deferred cleanupFunc
kubeconfigPath_leakOnWriteFailure(mm, tmp) ==
    IF mm.kubeconfig # Empty /\ mm.kubeconfigContent # Empty
    THEN [path |-> mm.kubeconfig, err |-> <<Err("conflict", << >>)>>,
          created |-> FALSE, remover |-> FALSE, deferred |-> 0]
    ELSE IF mm.kubeconfigContent # Empty
    THEN CASE tmp = "createfail" ->
                [path |-> Empty, err |-> <<Err("tmpcreate", << >>)>>,
                 created |-> FALSE, remover |-> FALSE, deferred |-> 1]
           [] tmp = "writefail" ->
                [path |-> Empty, err |-> <<Err("tmpwrite", << >>)>>,
                 created |-> TRUE, remover |-> TRUE, deferred |-> 0]
           [] tmp = "closefail" ->
                [path |-> Empty, err |-> <<Err("tmpclose", << >>)>>,
                 created |-> TRUE, remover |-> TRUE, deferred |-> 1]
           [] OTHER ->
                [path |-> TmpName, err |-> << >>,
                 created |-> TRUE, remover |-> TRUE, deferred |-> 0]
    ELSE [path |-> mm.kubeconfig, err |-> << >>,
          created |-> FALSE, remover |-> FALSE, deferred |-> 0]

\* variant: no conflict check, the inline content takes precedence
kubeconfigPath_contentWins(mm, tmp) ==
    IF mm.kubeconfigContent # Empty
    THEN CASE tmp = "createfail" ->
                [path |-> Empty, err |-> <<Err("tmpcreate", << >>)>>,
                 created |-> FALSE, remover |-> FALSE, deferred |-> 1]
           [] tmp = "writefail" ->
                [path |-> Empty, err |-> <<Err("tmpwrite", << >>)>>,
                 created |-> TRUE, remover |-> TRUE, deferred |-> 1]
           [] tmp = "closefail" ->
                [path |-> Empty, err |-> <<Err("tmpclose", << >>)>>,
                 created |-> TRUE, remover |-> TRUE, deferred |-> 1]
           [] OTHER ->
                [path |-> TmpName, err |-> << >>,
                 created |-> TRUE, remover |-> TRUE, deferred |-> 0]
    ELSE [path |-> mm.kubeconfig, err |-> << >>,
          created |-> FALSE, remover |-> FALSE, deferred |-> 0]

kubeconfigPath(mm, tmp) ==
    IF mm.kubeconfig # Empty /\ mm.kubeconfigContent # Empty
    THEN [path |-> mm.kubeconfig, err |-> <<Err("conflict", << >>)>>,
          created |-> FALSE, remover |-> FALSE, deferred |-> 0]
    ELSE IF mm.kubeconfigContent # Empty
    THEN CASE tmp = "createfail" ->
                [path |-> Empty, err |-> <<Err("tmpcreate", << >>)>>,
                 created |-> FALSE, remover |-> FALSE, deferred |-> 1]
           [] tmp = "writefail" ->
                [path |-> Empty, err |-> <<Err("tmpwrite", << >>)>>,
                 created |-> TRUE, remover |-> TRUE, deferred |-> 1]
           [] tmp = "closefail" ->
                [path |-> Empty, err |-> <<Err("tmpclose", << >>)>>,
                 created |-> TRUE, remover |-> TRUE, deferred |-> 1]
           [] OTHER ->
                [path |-> TmpName, err |-> << >>,
                 created |-> TRUE, remover |-> TRUE, deferred |-> 0]
    ELSE [path |-> mm.kubeconfig, err |-> << >>,
          created |-> FALSE, remover |-> FALSE, deferred |-> 0]

\* the caller's "if err != nil { return ... }; defer cleanup()": how often the
\* caller runs the release function
deferCleanup(k) == IF k.err # << >> THEN 0 ELSE 1

\* the record of one credentials resolution, once its caller has returned
Resolution(k) ==
    LET runs == k.deferred + deferCleanup(k)
    IN  [conflict |-> (k.err # << >> /\ k.err[1].kind = "conflict"),
         failed   |-> k.err # << >>,
         created  |-> k.created,
         released |-> runs,
         removals |-> IF k.remover THEN runs ELSE 0]

\* "determining kubeconfig: %v"
determining(k) == <<Err(k.err[1].kind, <<"determining kubeconfig">>)>>

\* kubectl(m, kubeconfig, args...): the argument list after the program name
\* variant: the --kubeconfig pair is put in front of the --context pair
kubectl_kubeconfigFirst(mm, kubeconfig, args) ==
    LET a1 == IF mm.kubeconfigContext # Empty
              THEN <<sContextFlag, mm.kubeconfigContext>> \o args ELSE args
    IN  IF kubeconfig # Empty
        THEN <<sKubeconfigFlag, kubeconfig>> \o a1 ELSE a1

kubectl(mm, kubeconfig, args) ==
    LET a1 == IF kubeconfig # Empty
              THEN <<sKubeconfigFlag, kubeconfig>> \o args ELSE args
    IN  IF mm.kubeconfigContext # Empty
        THEN <<sContextFlag, mm.kubeconfigContext>> \o a1 ELSE a1

(***************************************************************************)
(* Identifier codec                                                        *)
(***************************************************************************)
\* the loop of resourceFromSelflink: the part after the first "namespaces"
\* part that has a successor
\* variant: the loop does not break at the first hit, the last one wins
namespaceOf_last(parts) ==
    LET hits == {i \in 1..Len(parts) : parts[i] = sNamespaces /\ Len(parts) > i}
    IN  IF hits = {} THEN Empty
        ELSE parts[(CHOOSE i \in hits : \A j \in hits : j <= i) + 1]

namespaceOf(parts) ==
    LET hits == {i \in 1..Len(parts) : parts[i] = sNamespaces /\ Len(parts) > i}
    IN  IF hits = {} THEN Empty
        ELSE parts[(CHOOSE i \in hits : \A j \in hits : i <= j) + 1]

resourceFromSelflink(s) ==
    LET parts == Split(s, Slash)
        n == Len(parts)
    IN  IF n < 2
        THEN [resource |-> Empty, namespace |-> Empty, ok |-> FALSE]
        ELSE LET u == PathUnescape(parts[n-1] \o <<Slash>> \o parts[n])
             IN  [resource |-> u.val, namespace |-> namespaceOf(parts), ok |-> u.ok]

(***************************************************************************)
(* Per-locator steps.  Each returns the error (empty sequence is nil), the *)
(* subprocess argument lists it ran and its credentials resolutions.       *)
(***************************************************************************)
namespaceArgs(loc) ==
    IF loc.namespace # Empty THEN <<sDashN, loc.namespace>> ELSE << >>

deleteResource(mm, selflink, io) ==
    LET loc == resourceFromSelflink(selflink)
        args == <<sDelete, loc.resource>> \o namespaceArgs(loc)
        k == kubeconfigPath(mm, io.tmp)
        cmd == kubectl(mm, k.path, args)
    IN  IF ~loc.ok
        THEN [err |-> <<Err("invalid", <<selflink>>)>>, calls |-> << >>,
              res |-> << >>, clear |-> FALSE]
        ELSE IF k.err # << >>
        THEN [err |-> determining(k), calls |-> << >>,
              res |-> <<Resolution(k)>>, clear |-> FALSE]
        ELSE [err |-> run(cmd, io.run), calls |-> <<cmd>>,
              res |-> <<Resolution(k)>>, clear |-> FALSE]

readResource(mm, selflink, io) ==
    LET loc == resourceFromSelflink(selflink)
        args == <<sGet, sIgnoreNotFound, loc.resource>> \o namespaceArgs(loc)
        k == kubeconfigPath(mm, io.tmp)
        cmd == kubectl(mm, k.path, args)
    IN  IF ~loc.ok
        THEN [err |-> <<Err("invalid", <<selflink>>)>>, calls |-> << >>,
              res |-> << >>, clear |-> FALSE]
        ELSE IF k.err # << >>
        THEN [err |-> determining(k), calls |-> << >>,
              res |-> <<Resolution(k)>>, clear |-> FALSE]
        ELSE IF run(cmd, io.run) # << >>
        THEN [err |-> run(cmd, io.run), calls |-> <<cmd>>,
              res |-> <<Resolution(k)>>, clear |-> FALSE]
        ELSE [err |-> << >>, calls |-> <<cmd>>,
              res |-> <<Resolution(k)>>, clear |-> TrimSpaceIsEmpty(io.out)]

(***************************************************************************)
(* Lifecycle callbacks.  d is the stored identity d.Id(); the result holds *)
(* the identity when the callback returns and what the callback did.       *)
(***************************************************************************)
\* the index visited by the k-th iteration of the loop over n resources
\* variant: the loop runs from the first resource to the last
DeleteOrder_forward(n) == [k \in 1..n |-> k]

DeleteOrder(n) == [k \in 1..n |-> n - k + 1]

ReadOrder(n) == [k \in 1..n |-> k]

resourceManifestDelete(d, mm, iosq) ==
    LET rsrc == Split(d, resourceIDSelflinkDelim)
        n == Len(rsrc)
        ord == DeleteOrder(n)
        rs == << >> \o [k \in 1..n |-> deleteResource(mm, rsrc[ord[k]], iosq[k])]
    IN  [id |-> d,
         resources |-> rsrc,
         attempts |-> [k \in 1..n |-> rsrc[ord[k]]],
         locators |-> [k \in 1..n |-> resourceFromSelflink(rsrc[ord[k]])],
         errs |-> Flatten([k \in 1..n |-> rs[k].err]),
         calls |-> Flatten([k \in 1..n |-> rs[k].calls]),
         res |-> Flatten([k \in 1..n |-> rs[k].res]),
         cleared |-> FALSE]

resourceManifestRead(d, mm, iosq) ==
    LET rsrc == Split(d, resourceIDSelflinkDelim)
        n == Len(rsrc)
        ord == ReadOrder(n)
        rs == << >> \o [k \in 1..n |-> readResource(mm, rsrc[ord[k]], iosq[k])]
        clr == \E k \in 1..n : rs[k].clear
    IN  [id |-> IF clr THEN Empty ELSE d,
         resources |-> rsrc,
         attempts |-> [k \in 1..n |-> rsrc[ord[k]]],
         locators |-> [k \in 1..n |-> resourceFromSelflink(rsrc[ord[k]])],
         errs |-> Flatten([k \in 1..n |-> rs[k].err]),
         calls |-> Flatten([k \in 1..n |-> rs[k].calls]),
         res |-> Flatten([k \in 1..n |-> rs[k].res]),
         cleared |-> clr]

applyArgs == <<sApply, sDashF, sDash>>
getArgs == <<sGet, sDashF, sDash, sDashO, sJson>>

\* variant: a failed apply clears the identity
resourceManifestUpdate_resetOnFailure(d, mm, io) ==
    LET k == kubeconfigPath(mm, io.tmp)
        cmd == kubectl(mm, k.path, applyArgs)
    IN  IF k.err # << >>
        THEN [id |-> d, errs |-> determining(k), calls |-> << >>,
              res |-> <<Resolution(k)>>]
        ELSE [id |-> IF run(cmd, io.run) # << >> THEN Empty ELSE d,
              errs |-> run(cmd, io.run), calls |-> <<cmd>>,
              res |-> <<Resolution(k)>>]

resourceManifestUpdate(d, mm, io) ==
    LET k == kubeconfigPath(mm, io.tmp)
        cmd == kubectl(mm, k.path, applyArgs)
    IN  IF k.err # << >>
        THEN [id |-> d, errs |-> determining(k), calls |-> << >>,
              res |-> <<Resolution(k)>>]
        ELSE [id |-> d, errs |-> run(cmd, io.run), calls |-> <<cmd>>,
              res |-> <<Resolution(k)>>]

\* the item loop of Create: some item has an empty self-link
\* variant: the per-item self-link check is missing
missingSelflink_never(items) == FALSE

missingSelflink(items) == \E i \in 1..Len(items) : items[i] = Empty

resourceManifestCreate(d, mm, io) ==
    LET k == kubeconfigPath(mm, io.tmp)
        cmd1 == kubectl(mm, k.path, applyArgs)
        cmd2 == kubectl(mm, k.path, getArgs)
        r == <<Resolution(k)>>
    IN  IF k.err # << >>
        THEN [id |-> d, errs |-> determining(k), calls |-> << >>, res |-> r]
        ELSE IF run(cmd1, io.run) # << >>
        THEN [id |-> d, errs |-> run(cmd1, io.run), calls |-> <<cmd1>>, res |-> r]
        ELSE IF run(cmd2, io.get) # << >>
        THEN [id |-> d, errs |-> run(cmd2, io.get), calls |-> <<cmd1, cmd2>>, res |-> r]
        ELSE IF ~io.valid
        THEN [id |-> d, errs |-> <<Err("decode", << >>)>>,
              calls |-> <<cmd1, cmd2>>, res |-> r]
        ELSE IF Len(io.items) = 0
        THEN [id |-> d, errs |-> <<Err("noresources", << >>)>>,
              calls |-> <<cmd1, cmd2>>, res |-> r]
        ELSE IF missingSelflink(io.items)
        THEN [id |-> d, errs |-> <<Err("noselflink", << >>)>>,
              calls |-> <<cmd1, cmd2>>, res |-> r]
        ELSE [id |-> Join(io.items, resourceIDSelflinkDelim), errs |-> << >>,
              calls |-> <<cmd1, cmd2>>, res |-> r]

(***************************************************************************)
(* Environment inputs                                                      *)
(***************************************************************************)
Configs ==
    [kubeconfig : {Empty, CfgPath},
     kubeconfigContent : {Empty, CfgContent},
     kubeconfigContext : {Empty, CfgContext}]

\* temporary-file failures can only happen when a file is materialised
TmpFailures(mm) ==
    IF mm.kubeconfigContent # Empty /\ mm.kubeconfig = Empty
    THEN {"createfail", "writefail", "closefail"} ELSE {}

OkIO == IO("ok", "ok", OutFound, "ok", TRUE, << >>)

\* outcomes of one locator step: a temporary-file failure, a failing
\* subprocess, or a subprocess that succeeds and prints one of outs; with
\* conflicting credentials no outcome is ever consulted
LocIOs(mm, outs) ==
    IF mm.kubeconfig # Empty /\ mm.kubeconfigContent # Empty THEN {OkIO}
    ELSE   {IO(t, "ok", OutFound, "ok", TRUE, << >>) : t \in TmpFailures(mm)}
        \cup {IO("ok", "fail", OutFound, "ok", TRUE, << >>)}
        \cup {IO("ok", "ok", o, "ok", TRUE, << >>) : o \in outs}

\* one outcome per loop iteration, the k-th for segs[order[k]]; an iteration
\* whose identifier does not decode consults no outcome
RECURSIVE IOSeqsFrom(_, _, _, _, _)
IOSeqsFrom(mm, segs, order, outs, k) ==
    IF k > Len(segs) THEN {<< >>}
    ELSE LET here == IF resourceFromSelflink(segs[order[k]]).ok
                     THEN LocIOs(mm, outs) ELSE {OkIO}
         IN  {<<io>> \o rest : io \in here,
                               rest \in IOSeqsFrom(mm, segs, order, outs, k + 1)}

IOSeqs(mm, segs, order, outs) == IOSeqsFrom(mm, segs, order, outs, 1)

\* the item lists the get output may decode to
ItemLists ==
    UNION {[1..n -> SelfLinks \cup {Empty}] : n \in 0..MaxItems}

CreateIOs(mm) ==
       {IO(t, "ok", OutFound, "ok", TRUE, << >>) : t \in TmpFailures(mm)}
    \cup {IO("ok", "fail", OutFound, "ok", TRUE, << >>)}
    \cup {IO("ok", "ok", OutFound, "fail", TRUE, << >>)}
    \cup {IO("ok", "ok", OutFound, "ok", FALSE, << >>)}
    \cup {IO("ok", "ok", OutFound, "ok", TRUE, items) : items \in ItemLists}

\* temporary files a callback leaves on disk
leaked(res) ==
    Cardinality({i \in 1..Len(res) : res[i].created /\ res[i].removals = 0})

(***************************************************************************)
(* State machine                                                           *)
(***************************************************************************)
Init ==
    /\ m \in Configs
    /\ id = Empty
    /\ createdId = Empty
    /\ createdItems = << >>
    /\ op = "none"
    /\ idBefore = Empty
    /\ ios = << >>
    /\ resources = << >>
    /\ attempts = << >>
    /\ locators = << >>
    /\ calls = << >>
    /\ errs = << >>
    /\ resolutions = << >>
    /\ tmpfiles = 0
    /\ cleared = FALSE

\* the host calls Create for a resource that has no identity yet; one
\* callback runs at a time.  createdId and createdItems record the identity
\* this Create set and the items it was built from (empty when it failed)
Create ==
    /\ op = "none"
    /\ id = Empty
    /\ \E io \in CreateIOs(m) :
        \E r \in {resourceManifestCreate(id, m, io)} :
            /\ op' = "Create"
            /\ idBefore' = id
            /\ ios' = <<io>>
            /\ id' = r.id
            /\ createdId' = IF r.errs = << >> THEN r.id ELSE Empty
            /\ createdItems' = IF r.errs = << >> THEN io.items ELSE << >>
            /\ resources' = << >>
            /\ attempts' = << >>
            /\ locators' = << >>
            /\ calls' = r.calls
            /\ errs' = r.errs
            /\ resolutions' = r.res
            /\ tmpfiles' = tmpfiles + leaked(r.res)
            /\ cleared' = FALSE
    /\ UNCHANGED m

Update ==
    /\ op = "none"
    /\ \E io \in LocIOs(m, {OutFound}) :
        \E r \in {resourceManifestUpdate(id, m, io)} :
            /\ op' = "Update"
            /\ idBefore' = id
            /\ ios' = <<io>>
            /\ id' = r.id
            /\ resources' = << >>
            /\ attempts' = << >>
            /\ locators' = << >>
            /\ calls' = r.calls
            /\ errs' = r.errs
            /\ resolutions' = r.res
            /\ tmpfiles' = tmpfiles + leaked(r.res)
            /\ cleared' = FALSE
    /\ UNCHANGED <<m, createdId, createdItems>>

Read ==
    /\ op = "none"
    /\ LET segs == Split(id, resourceIDSelflinkDelim)
       IN  \E iosq \in IOSeqs(m, segs, ReadOrder(Len(segs)), Stdouts) :
            \E r \in {resourceManifestRead(id, m, iosq)} :
                /\ op' = "Read"
                /\ idBefore' = id
                /\ ios' = iosq
                /\ id' = r.id
                /\ resources' = r.resources
                /\ attempts' = r.attempts
                /\ locators' = r.locators
                /\ calls' = r.calls
                /\ errs' = r.errs
                /\ resolutions' = r.res
                /\ tmpfiles' = tmpfiles + leaked(r.res)
                /\ cleared' = r.cleared
    /\ UNCHANGED <<m, createdId, createdItems>>

Delete ==
    /\ op = "none"
    /\ LET segs == Split(id, resourceIDSelflinkDelim)
       IN  \E iosq \in IOSeqs(m, segs, DeleteOrder(Len(segs)), {OutFound}) :
            \E r \in {resourceManifestDelete(id, m, iosq)} :
                /\ op' = "Delete"
                /\ idBefore' = id
                /\ ios' = iosq
                /\ id' = r.id
                /\ resources' = r.resources
                /\ attempts' = r.attempts
                /\ locators' = r.locators
                /\ calls' = r.calls
                /\ errs' = r.errs
                /\ resolutions' = r.res
                /\ tmpfiles' = tmpfiles + leaked(r.res)
                /\ cleared' = r.cleared
    /\ UNCHANGED <<m, createdId, createdItems>>

\* the callback has returned: the host keeps the identity string and nothing
\* else of the call; a resource whose identity is empty is gone from the
\* host's state, and so is the record of its creation
Persist ==
    /\ op # "none"
    /\ op' = "none"
    /\ idBefore' = Empty
    /\ ios' = << >>
    /\ resources' = << >>
    /\ attempts' = << >>
    /\ locators' = << >>
    /\ calls' = << >>
    /\ errs' = << >>
    /\ resolutions' = << >>
    /\ cleared' = FALSE
    /\ createdId' = IF id = Empty THEN Empty ELSE createdId
    /\ createdItems' = IF id = Empty THEN << >> ELSE createdItems
    /\ UNCHANGED <<m, id, tmpfiles>>

\* between callbacks the host may start the provider anew with another
\* configuration; the identity it persisted stays
Configure ==
    /\ op = "none"
    /\ m' \in Configs \ {m}
    /\ UNCHANGED <<id, createdId, createdItems, op, idBefore, ios, resources,
                   attempts, locators, calls, errs, resolutions, tmpfiles, cleared>>

Next == Create \/ Update \/ Read \/ Delete \/ Persist \/ Configure

Spec == Init /\ [][Next]_vars

(***************************************************************************)
(* Vocabulary of the properties                                            *)
(***************************************************************************)
Conflict(mm) == mm.kubeconfig # Empty /\ mm.kubeconfigContent # Empty

HasDelim(link) == \E i \in 1..Len(link) : link[i] = resourceIDSelflinkDelim

TmpKind(t) ==
    CASE t = "createfail" -> "tmpcreate"
      [] t = "writefail" -> "tmpwrite"
      [] t = "closefail" -> "tmpclose"
      [] OTHER -> ""

\* how the k-th attempt of the last Read or Delete failed ("" if it did not)
FailKind(k) ==
    IF ~locators[k].ok THEN "invalid"
    ELSE IF Conflict(m) THEN "conflict"
    ELSE IF ios[k].tmp # "ok" THEN TmpKind(ios[k].tmp)
    ELSE IF ios[k].run = "fail" THEN "exec"
    ELSE ""

\* the attempts that failed, in attempt order
FailIdx == Flatten([k \in 1..Len(attempts) |-> IF FailKind(k) = "" THEN << >> ELSE <<k>>])

\* the attempts that got as far as running their subprocess
Queried == {k \in 1..Len(attempts) :
               locators[k].ok /\ ~Conflict(m) /\ ios[k].tmp = "ok"}

\* the errors returned are those of the failed attempts, in attempt order,
\* each naming its own locator
ErrsAreTheFailures(verb) ==
    /\ Len(errs) = Len(FailIdx)
    /\ \A j \in 1..Len(errs) :
        LET k == FailIdx[j]
        IN  /\ errs[j].kind = FailKind(k)
            /\ errs[j].kind = "invalid" => errs[j].detail = <<attempts[k]>>
            /\ errs[j].kind = "exec" =>
                 \E p \in 1..(Len(errs[j].detail) - 1) :
                     /\ errs[j].detail[p] = verb
                     /\ \E q \in (p+1)..Len(errs[j].detail) :
                            errs[j].detail[q] = locators[k].resource

Reverse(sq) == [k \in 1..Len(sq) |-> sq[Len(sq) - k + 1]]

(***************************************************************************)
(* C1  Round trip of the composite identifier                              *)
(***************************************************************************)
\* the pieces a Read or Delete of the identity Create stored works on are
\* the reported self-links, in order, and decode like them
PiecesAreTheItems ==
    /\ resources = createdItems
    /\ Len(attempts) = Len(createdItems)
    /\ \A k \in 1..Len(attempts) :
         \E i \in 1..Len(createdItems) :
             /\ attempts[k] = createdItems[i]
             /\ locators[k] = resourceFromSelflink(createdItems[i])

OnCreatedId == op \in {"Read", "Delete"} /\ createdId # Empty /\ idBefore = createdId

\* C1 as stated: for every non-empty sequence of non-empty self-links,
\* splitting the identity Create joined gives back exactly the self-links, in
\* order, and the pieces decode as the self-links do.
C1_RoundTripAnyLinks == OnCreatedId => PiecesAreTheItems

\* C1 amended: the same, for self-links none of which contains the delimiter
\* (a space).
C1_RoundTripNoDelim ==
    (OnCreatedId /\ \A i \in 1..Len(createdItems) : ~HasDelim(createdItems[i]))
        => PiecesAreTheItems

C1_Witness ==
    /\ op = "Delete"
    /\ idBefore = createdId
    /\ createdItems = <<LinkDeployment, LinkEscaped>>
    /\ resources = createdItems
    /\ Len(locators) = 2 /\ locators[1].ok /\ locators[2].ok

(***************************************************************************)
(* C2  Delete: reverse order, no short-circuit, exact aggregate            *)
(***************************************************************************)
\* C2: Delete attempts the stored self-links in exactly the reverse of their
\* stored order, each exactly once whatever failed before, runs a subprocess
\* for exactly the attempts that decode and resolve credentials, and returns
\* exactly the failures of the failed attempts, in attempt order (nil when
\* none failed); the identity is not touched.
C2_DeleteReverseBestEffort ==
    op = "Delete" =>
        /\ attempts = Reverse(resources)
        /\ Len(calls) = Cardinality(Queried)
        /\ ErrsAreTheFailures(sDelete)
        /\ id = idBefore

C2_Witness ==
    /\ op = "Delete"
    /\ resources = <<LinkDeployment, LinkNsTwice>>
    /\ attempts = <<LinkNsTwice, LinkDeployment>>
    /\ ios[1].run = "fail" /\ ios[1].tmp = "ok"
    /\ ios[2].run = "ok" /\ ios[2].tmp = "ok"
    /\ ~Conflict(m)
    /\ Len(calls) = 2
    /\ Len(errs) = 1 /\ errs[1].kind = "exec"

(***************************************************************************)
(* C3  Read: every locator queried, identity cleared iff one came back     *)
(* blank                                                                   *)
(***************************************************************************)
Blank(out) == out \in {OutEmpty, OutBlank}

SomeBlankAnswer ==
    \E k \in Queried : ios[k].run = "ok" /\ Blank(ios[k].out)

\* C3: Read attempts every stored self-link in order, runs the get query for
\* each one that decodes and resolves credentials, clears the identity if and
\* only if some query succeeded with empty or whitespace-only output, and
\* still returns the failures of the other locators.
C3_ReadClearsIffBlank ==
    op = "Read" =>
        /\ attempts = resources
        /\ Len(calls) = Cardinality(Queried)
        /\ cleared <=> SomeBlankAnswer
        /\ id = (IF SomeBlankAnswer THEN Empty ELSE idBefore)
        /\ ErrsAreTheFailures(sGet)

C3_Witness ==
    /\ op = "Read"
    /\ Len(attempts) = 2
    /\ \E a, b \in 1..2 :
        /\ a \in Queried /\ ios[a].run = "ok" /\ ios[a].out = OutBlank
        /\ b \in Queried /\ ios[b].run = "fail"
    /\ idBefore # Empty
    /\ id = Empty
    /\ Len(errs) = 1

(***************************************************************************)
(* C4  Create: identity set only when every step succeeded                 *)
(***************************************************************************)
\* the single-space join, written as a concatenation
SpaceJoined(items) ==
    Flatten([i \in 1..Len(items) |->
                IF i = 1 THEN items[i] ELSE <<" ">> \o items[i]])

IsCommand(c, verbArgs) ==
    /\ Len(c) >= Len(verbArgs)
    /\ SubSeq(c, Len(c) - Len(verbArgs) + 1, Len(c)) = verbArgs

CredentialsResolve(io) == ~Conflict(m) /\ io.tmp = "ok"

CreateSucceeds(io) ==
    /\ CredentialsResolve(io)
    /\ io.run = "ok"
    /\ io.get = "ok"
    /\ io.valid
    /\ Len(io.items) > 0
    /\ \A i \in 1..Len(io.items) : io.items[i] # Empty

\* the steps Create runs: none when credentials do not resolve, apply alone
\* when apply fails, apply then get otherwise
CreateStepsRun(io) ==
    IF ~CredentialsResolve(io) THEN calls = << >>
    ELSE IF io.run = "fail" THEN Len(calls) = 1 /\ IsCommand(calls[1], applyArgs)
    ELSE /\ Len(calls) = 2
         /\ IsCommand(calls[1], applyArgs)
         /\ IsCommand(calls[2], getArgs)

\* C4: when Create returns, the identity is the single-space join of the
\* reported self-links in report order if credentials, apply, get, decoding,
\* the non-empty-items check and the per-item self-link check all succeeded;
\* otherwise Create returns one error, has run no step after the failed one,
\* and the identity is still unset.
C4_CreateAllOrNothing ==
    op = "Create" =>
        /\ CreateStepsRun(ios[1])
        /\ IF CreateSucceeds(ios[1])
           THEN errs = << >> /\ id = SpaceJoined(ios[1].items) /\ id # Empty
           ELSE Len(errs) = 1 /\ id = Empty

C4_Witness ==
    /\ op = "Create"
    /\ errs = << >>
    /\ ios[1].items = <<LinkDeployment, LinkNsLast>>
    /\ id = LinkDeployment \o <<" ">> \o LinkNsLast
    /\ Len(calls) = 2

(***************************************************************************)
(* C5  Conflicting credentials                                             *)
(***************************************************************************)
NothingStarted ==
    /\ calls = << >>
    /\ \A i \in 1..Len(resolutions) : ~resolutions[i].created
    /\ tmpfiles = 0

\* C5 as stated: with both the credentials path and the inline content set,
\* every callback returns a configuration-conflict error, creates no
\* temporary file and runs no subprocess.
C5_ConflictAlwaysReported ==
    (op # "none" /\ Conflict(m)) =>
        /\ \E j \in 1..Len(errs) : errs[j].kind = "conflict"
        /\ NothingStarted

\* C5 amended: with both set, every callback returns an error, creates no
\* temporary file and runs no subprocess; Create and Update return the
\* configuration-conflict error, Read and Delete return one error per stored
\* segment, the configuration-conflict error for a segment that decodes and
\* the invalid-identifier error for one that does not.
C5_ConflictPerSegment ==
    (op # "none" /\ Conflict(m)) =>
        /\ errs # << >>
        /\ NothingStarted
        /\ op \in {"Create", "Update"} =>
             Len(errs) = 1 /\ errs[1].kind = "conflict"
        /\ op \in {"Read", "Delete"} =>
             /\ Len(errs) = Len(attempts)
             /\ \A k \in 1..Len(errs) :
                  errs[k].kind = IF locators[k].ok THEN "conflict" ELSE "invalid"

C5_Witness ==
    /\ op = "Delete"
    /\ Conflict(m)
    /\ attempts = <<LinkShort, LinkDeployment>>
    /\ Len(errs) = 2
    /\ errs[1].kind = "invalid"
    /\ errs[2].kind = "conflict"
    /\ calls = << >>

NamespaceAfterFirst(parts) ==
    IF \E i \in 1..(Len(parts) - 1) : parts[i] = sNamespaces
    THEN LET i == CHOOSE i \in 1..(Len(parts) - 1) :
                     /\ parts[i] = sNamespaces
                     /\ \A j \in 1..(i - 1) : parts[j] # sNamespaces
         IN  parts[i + 1]
    ELSE Empty

LastTwo(parts) == parts[Len(parts) - 1] \o <<"/">> \o parts[Len(parts)]

Decoded == op \in {"Read", "Delete"}

\* C7 as stated: fewer than 2 segments give ok=false; otherwise
\* resourceKindAndName is the second-to-last segment, "/" and the last
\* segment, and namespace is the segment after a "namespaces" segment, empty
\* if there is none.
C7_DecodeRawSegments ==
    Decoded =>
        \A k \in 1..Len(attempts) :
            LET parts == Split(attempts[k], "/")
            IN  IF Len(parts) < 2 THEN ~locators[k].ok
                ELSE /\ locators[k].resource = LastTwo(parts)
                     /\ locators[k].namespace = NamespaceAfterFirst(parts)

\* C7 amended: fewer than 2 segments give ok=false (with empty fields);
\* otherwise resourceKindAndName is the percent-decoding of the second-to-last
\* segment, "/" and the last segment with ok=true, or empty with ok=false
\* when that text holds a malformed percent escape, and namespace is the
\* segment after the first "namespaces" segment that has a successor, empty
\* if there is none.
C7_DecodePercentDecoded ==
    Decoded =>
        \A k \in 1..Len(attempts) :
            LET parts == Split(attempts[k], "/")
            IN  IF Len(parts) < 2
                THEN locators[k] = [resource |-> Empty, namespace |-> Empty, ok |-> FALSE]
                ELSE /\ locators[k].ok = escapesValid(LastTwo(parts), 1)
                     /\ locators[k].resource =
                          (IF locators[k].ok THEN unescape(LastTwo(parts)) ELSE Empty)
                     /\ locators[k].namespace = NamespaceAfterFirst(parts)

C7_Witness ==
    /\ op = "Read"
    /\ attempts = <<LinkDeployment, LinkEscaped>>
    /\ locators[1] = [resource |-> <<"d","e","p","l","o","y","m","e","n","t","s","/","b","a","r">>,
                      namespace |-> <<"f","o","o">>, ok |-> TRUE]
    /\ locators[2] = [resource |-> <<"c","m","/","a","A">>, namespace |-> Empty, ok |-> TRUE]

(***************************************************************************)
(* C8  Identity is immutable after creation                                *)
(***************************************************************************)
\* C8: Update runs only the apply step and leaves the identity as it was,
\* whether it succeeds or fails; after any step the identity is the one
\* Create set or empty.
C8_IdentityImmutable ==
    [][ /\ op' = "Update" =>
            /\ id' = id
            /\ Len(calls') <= 1
            /\ \A i \in 1..Len(calls') : IsCommand(calls'[i], applyArgs)
        /\ id' \in {createdId', Empty} ]_vars

C8_Witness ==
    /\ op = "Update"
    /\ createdId # Empty
    /\ id = createdId
    /\ Len(errs) = 1 /\ errs[1].kind = "exec"
    /\ Len(calls) = 1

(***************************************************************************)
(* C9  Shape of the subprocess argument list                               *)
(***************************************************************************)
Verbs == {sApply, sGet, sDelete}

\* the path kubeconfigPath resolves to when it succeeds
ResolvedPath == IF m.kubeconfigContent # Empty THEN TmpName ELSE m.kubeconfig

KubeconfigPair == IF ResolvedPath # Empty THEN <<sKubeconfigFlag, ResolvedPath>> ELSE << >>
ContextPair ==
    IF m.kubeconfigContext # Empty THEN <<sContextFlag, m.kubeconfigContext>> ELSE << >>

StartsWith(c, prefix) ==
    /\ Len(c) > Len(prefix)
    /\ SubSeq(c, 1, Len(prefix)) = prefix
    /\ c[Len(prefix) + 1] \in Verbs

\* C9 as stated: every argument list is [--kubeconfig path]? [--context
\* name]? verb ..., each pair present exactly when its value is non-empty,
\* the --kubeconfig pair before the --context pair.
C9_KubeconfigThenContext ==
    \A i \in 1..Len(calls) : StartsWith(calls[i], KubeconfigPair \o ContextPair)

\* C9 amended: every argument list is [--context name]? [--kubeconfig path]?
\* verb ..., each pair present exactly when its value is non-empty, the
\* --context pair before the --kubeconfig pair.
C9_ContextThenKubeconfig ==
    \A i \in 1..Len(calls) : StartsWith(calls[i], ContextPair \o KubeconfigPair)

C9_Witness ==
    /\ op = "Create"
    /\ Len(calls) = 2
    /\ m.kubeconfigContext = CfgContext
    /\ m.kubeconfigContent = CfgContent
    /\ calls[2] = <<sContextFlag, CfgContext, sKubeconfigFlag, TmpName>> \o getArgs

(***************************************************************************)
(* C10  Read and Delete on an empty identity                               *)
(***************************************************************************)
\* C10: Read or Delete on an empty stored identity works on one empty
\* segment, which does not decode: it runs no subprocess, resolves no
\* credentials and creates no temporary file, leaves the identity empty and
\* returns exactly one invalid-identifier error.
C10_EmptyIdentityIsInvalid ==
    (op \in {"Read", "Delete"} /\ idBefore = Empty) =>
        /\ resources = <<Empty>>
        /\ attempts = <<Empty>>
        /\ calls = << >>
        /\ resolutions = << >>
        /\ tmpfiles = 0
        /\ id = Empty
        /\ errs = <<Err("invalid", <<Empty>>)>>

C10_Witness ==
    /\ op = "Delete"
    /\ idBefore = Empty
    /\ Len(errs) = 1
    /\ errs[1].kind = "invalid"
    /\ m.kubeconfigContent = CfgContent

====
